---- MODULE Spec2Model ----
(***************************************************************************)
(* git-dit: issue references over a commit graph, the repository extension *)
(* trait (src/src/repository.rs) and the garbage collection of references  *)
(* (src/src/gc.rs).                                                        *)
(*                                                                         *)
(* Commits are numbered 1..Len(commits) in creation order; commits[n] is   *)
(* the sequence of parent ids of commit n, so the graph is a DAG by        *)
(* construction (a commit can only name commits that already exist).       *)
(* A reference name is its path, a sequence of segments; refs maps each    *)
(* existing reference name to the commit it targets.                       *)
(***************************************************************************)
EXTENDS Integers, Sequences, FiniteSets, TLC

VARIABLES commits, refs, ret

vars == <<commits, refs, ret>>

(***************************************************************************)
(* Bounds of the exploration.                                              *)
(***************************************************************************)
MaxCommits == 3
MaxParents == 2
MaxRefs == 3
MaxIssues == 2

Remotes == {"origin"}

(***************************************************************************)
(* Object ids and reference names.                                         *)
(***************************************************************************)
Oids == 1..MaxCommits

\* Oid's Display: the id printed into a reference path.
OidToStr(id) == ToString(id)

OidStrs == {OidToStr(id) : id \in Oids}

\* Oid::from_str: the id a path segment spells, 0 when it spells none.
OidFromStr(s) == IF s \in OidStrs THEN CHOOSE id \in Oids : OidToStr(id) = s ELSE 0

Range(s) == {s[i] : i \in 1..Len(s)}

Nodes == 1..Len(commits)

Parents(n) == Range(commits[n])

RECURSIVE Ancestors(_)
\* What a revwalk with n pushed yields: n and everything reachable over
\* parent links.
Ancestors(n) == {n} \cup UNION {Ancestors(p) : p \in Parents(n)}

Reach(seeds) == UNION {Ancestors(n) : n \in seeds}

\* refs/dit/<id>/head
LocalHeadName(id) == <<"refs", "dit", OidToStr(id), "head">>

\* refs/dit/<id>/leaves/<leaf>
LocalLeafName(id, leaf) == <<"refs", "dit", OidToStr(id), "leaves", leaf>>

\* refs/remotes/<remote>/dit/<id>/head
RemoteHeadName(r, id) == <<"refs", "remotes", r, "dit", OidToStr(id), "head">>

\* refs/remotes/<remote>/dit/<id>/leaves/<leaf>
RemoteLeafName(r, id, leaf) == <<"refs", "remotes", r, "dit", OidToStr(id), "leaves", leaf>>

IsLocalName(nm) == Len(nm) >= 3 /\ nm[2] = "dit"

IsRemoteName(nm) == Len(nm) >= 5 /\ nm[2] = "remotes" /\ nm[4] = "dit"

\* The issue id segment of a dit reference name.
IssuePart(nm) == IF IsLocalName(nm) THEN nm[3] ELSE IF IsRemoteName(nm) THEN nm[5] ELSE ""

\* The path below <prefix>/dit/<id>/.
RefTail(nm) ==
    IF IsLocalName(nm) THEN SubSeq(nm, 4, Len(nm))
    ELSE IF IsRemoteName(nm) THEN SubSeq(nm, 6, Len(nm))
    ELSE <<>>

\* IssueRefType::glob_part matched against the path below the issue id:
\* Any is "**", Head is "head", Leaf is "leaves/*".
MatchesType(tail, type) ==
    CASE type = "Any" -> Len(tail) >= 1
      [] type = "Head" -> tail = <<"head">>
      [] type = "Leaf" -> Len(tail) = 2 /\ tail[1] = "leaves"

(***************************************************************************)
(* Issue: the handle of src/issue.rs, an id bound to the repository.       *)
(***************************************************************************)
\* Issue::heads: the references matching **/dit/<id>/head.
Heads(rf, id) ==
    {nm \in DOMAIN rf : IssuePart(nm) = OidToStr(id) /\ RefTail(nm) = <<"head">>}

\* Issue::local_head: find_reference(refs/dit/<id>/head); the empty set
\* stands for the lookup failing.
LocalHead(rf, id) == {nm \in DOMAIN rf : nm = LocalHeadName(id)}

\* Issue::local_refs: the references matching refs/dit/<id>/<type>.
LocalRefs(rf, id, type) ==
    {nm \in DOMAIN rf :
        IsLocalName(nm) /\ IssuePart(nm) = OidToStr(id) /\ MatchesType(RefTail(nm), type)}

\* Issue::remote_refs: the references matching refs/remotes/*/dit/<id>/<type>.
RemoteRefs(rf, id, type) ==
    {nm \in DOMAIN rf :
        IsRemoteName(nm) /\ IssuePart(nm) = OidToStr(id) /\ MatchesType(RefTail(nm), type)}

\* The ids of the issues some reference is filed under.
IssuesWithRefs(rf) == {OidFromStr(IssuePart(nm)) : nm \in DOMAIN rf} \ {0}

(***************************************************************************)
(* RefsReferringTo (src/iter.rs): a revwalk paired with the references     *)
(* watched for, keyed by the commit each targets.  seeds are the ids       *)
(* pushed onto the revwalk, watch[id] the references waiting for id in     *)
(* the order they were watched, current the references already matched     *)
(* and not yet handed out.                                                 *)
(***************************************************************************)
Reverse(s) == [i \in 1..Len(s) |-> s[Len(s) + 1 - i]]

RECURSIVE SeqOf(_)
\* An enumeration of a finite set, each element once.
SeqOf(S) == IF S = {} THEN <<>> ELSE LET x == CHOOSE y \in S : TRUE IN <<x>> \o SeqOf(S \ {x})

RECURSIVE Descending(_)
Descending(S) ==
    IF S = {} THEN <<>>
    ELSE LET m == CHOOSE x \in S : \A y \in S : y <= x IN <<m>> \o Descending(S \ {m})

\* The order in which a revwalk with the given ids pushed yields commits:
\* every commit reachable from a pushed id, once, children before parents.
Revwalk(seeds) == Descending(Reach(seeds))

\* RefsReferringTo::new
NewRefsReferringTo == [seeds |-> {}, watch |-> [id \in Oids |-> <<>>], current |-> <<>>]

\* RefsReferringTo::push
Push(w, id) == [w EXCEPT !.seeds = @ \cup {id}]

\* RefsReferringTo::watch_ref: the reference is resolved when it is watched.
WatchRef(w, rf, nm) == [w EXCEPT !.watch[rf[nm]] = Append(@, nm)]

RECURSIVE Matched(_, _)
\* The references handed out while the revwalk yields the ids of walk: all
\* references waiting for a yielded id leave the watch map together and are
\* popped off the back of the batch.
Matched(walk, watch) ==
    IF walk = <<>> THEN <<>>
    ELSE Reverse(watch[Head(walk)])
            \o Matched(Tail(walk), [watch EXCEPT ![Head(walk)] = <<>>])

\* Iterating a RefsReferringTo to its end: the sequence of items.
Drain(w) == Reverse(w.current) \o Matched(Revwalk(w.seeds), w.watch)

\* ResultIterExt::collect_result_into: the items of src extend dst.
CollectResultInto(src, dst) == [dst EXCEPT !.current = @ \o Drain(src)]

(***************************************************************************)
(* CollectableRefs (src/src/gc.rs)                                         *)
(***************************************************************************)
\* CollectableRefs::new
NewCollectableRefs == [consider_remote_refs |-> FALSE, collect_heads |-> "Never"]

\* CollectableRefs::consider_remote_refs
ConsiderRemoteRefs(c, option) == [c EXCEPT !.consider_remote_refs = option]

\* CollectableRefs::collect_heads
CollectHeads(c, condition) == [c EXCEPT !.collect_heads = condition]

ReferenceCollectionSpec == {"Never", "BackedByRemoteHead"}

\* Every configuration the builder can produce.
Configs ==
    {CollectHeads(ConsiderRemoteRefs(NewCollectableRefs, b), h) :
        b \in BOOLEAN, h \in ReferenceCollectionSpec}

RECURSIVE PushAll(_, _)
PushAll(w, ids) ==
    IF ids = <<>> THEN w ELSE PushAll(Push(w, Head(ids)), Tail(ids))

\* push_ref_parents pushing the referred commit itself.
PushRefParents_Self(w, rf, nm) == Push(w, rf[nm])

\* CollectableRefs::push_ref_parents: every parent of the commit the
\* reference targets is pushed, the commit itself is not.
PushRefParents(w, rf, nm) == PushAll(w, commits[rf[nm]])

\* The second watcher seeded from the remote heads whatever collect_heads is.
HeadWatcher_AnyPolicy(rf, id, c, local_head) ==
    WatchRef(PushAll(NewRefsReferringTo,
                     SeqOf({rf[nm] : nm \in RemoteRefs(rf, id, "Head")})),
             rf, local_head)

\* The second watcher seeded from every remote reference of the issue
\* (IssueRefType::Any for IssueRefType::Head).
HeadWatcher_AnyRemoteRef(rf, id, c, local_head) ==
    LET head_history ==
            IF c.collect_heads = "BackedByRemoteHead"
            THEN PushAll(NewRefsReferringTo,
                         SeqOf({rf[nm] : nm \in RemoteRefs(rf, id, "Any")}))
            ELSE NewRefsReferringTo
    IN  WatchRef(head_history, rf, local_head)

\* The second watcher of for_issue: a revwalk of its own, seeded from the
\* remote heads under BackedByRemoteHead and from nothing under Never,
\* watching the local head only.
HeadWatcher(rf, id, c, local_head) ==
    LET head_history ==
            IF c.collect_heads = "BackedByRemoteHead"
            THEN PushAll(NewRefsReferringTo,
                         SeqOf({rf[nm] : nm \in RemoteRefs(rf, id, "Head")}))
            ELSE NewRefsReferringTo
    IN  WatchRef(head_history, rf, local_head)

\* for_issue not pushing the local head's commit onto the main revwalk.
WithLocalHead_HeadNotPushed(w, rf, id, c) ==
    IF LocalHead(rf, id) = {} THEN w
    ELSE CollectResultInto(HeadWatcher(rf, id, c, LocalHeadName(id)), w)

\* for_issue computing the local head's fate in the main watcher, the way
\* it is computed for a leaf: under BackedByRemoteHead the head's parents
\* and the remote heads are pushed onto the main revwalk and the local head
\* is watched there.
WithLocalHead_OneFrontier(w, rf, id, c) ==
    IF LocalHead(rf, id) = {} THEN w
    ELSE LET local_head == LocalHeadName(id)
             pushed == PushRefParents(w, rf, local_head)
         IN  IF c.collect_heads = "BackedByRemoteHead"
             THEN WatchRef(PushAll(pushed, SeqOf({rf[nm] : nm \in RemoteRefs(rf, id, "Head")})),
                           rf, local_head)
             ELSE Push(w, rf[local_head])

\* for_issue, "local head": the head's commit is pushed onto the main
\* revwalk and the outcome of the second watcher is merged into the result.
WithLocalHead(w, rf, id, c) ==
    IF LocalHead(rf, id) = {} THEN w
    ELSE LET local_head == LocalHeadName(id)
         IN  CollectResultInto(HeadWatcher(rf, id, c, local_head),
                               Push(w, rf[local_head]))

RECURSIVE WithLocalLeaves(_, _, _)
\* for_issue, "local leaves": for each leaf its parents are pushed, then the
\* leaf is watched.
WithLocalLeaves(w, rf, leaves) ==
    IF leaves = <<>> THEN w
    ELSE WithLocalLeaves(WatchRef(PushRefParents(w, rf, Head(leaves)), rf, Head(leaves)),
                         rf, Tail(leaves))

\* for_issue pushing the remote references whatever consider_remote_refs is.
WithRemoteRefs_Always(w, rf, id, c) ==
    PushAll(w, SeqOf({rf[nm] : nm \in RemoteRefs(rf, id, "Any")}))

RECURSIVE WatchAll(_, _, _)
WatchAll(w, rf, names) ==
    IF names = <<>> THEN w ELSE WatchAll(WatchRef(w, rf, Head(names)), rf, Tail(names))

\* for_issue also watching the remote leaves it pushes.
WithRemoteRefs_Watched(w, rf, id, c) ==
    IF c.consider_remote_refs
    THEN WatchAll(PushAll(w, SeqOf({rf[nm] : nm \in RemoteRefs(rf, id, "Any")})),
                  rf, SeqOf(RemoteRefs(rf, id, "Leaf")))
    ELSE w

\* for_issue, "remote refs": with consider_remote_refs every remote
\* reference of the issue is pushed; none is watched.
WithRemoteRefs(w, rf, id, c) ==
    IF c.consider_remote_refs
    THEN PushAll(w, SeqOf({rf[nm] : nm \in RemoteRefs(rf, id, "Any")}))
    ELSE w

\* for_issue returning the outcome of the second watcher alone when the
\* local head is collectable.
ForIssue_HeadOnly(rf, id, c) ==
    LET head == WithLocalHead(NewRefsReferringTo, rf, id, c)
    IN  IF head.current # <<>> THEN [NewRefsReferringTo EXCEPT !.current = head.current]
        ELSE WithRemoteRefs(
                WithLocalLeaves(head, rf, SeqOf(LocalRefs(rf, id, "Leaf"))), rf, id, c)

\* for_issue going over the local leaves of every issue.
ForIssue_AnyIssue(rf, id, c) ==
    WithRemoteRefs(
        WithLocalLeaves(WithLocalHead(NewRefsReferringTo, rf, id, c),
                        rf, SeqOf({nm \in DOMAIN rf :
                                    IsLocalName(nm) /\ MatchesType(RefTail(nm), "Leaf")})),
        rf, id, c)

\* CollectableRefs::for_issue: the iterator it returns.
ForIssue(rf, id, c) ==
    WithRemoteRefs(
        WithLocalLeaves(WithLocalHead(NewRefsReferringTo, rf, id, c),
                        rf, SeqOf(LocalRefs(rf, id, "Leaf"))),
        rf, id, c)

\* The references for_issue yields, in the order they are yielded.
Collectable(rf, id, c) == Drain(ForIssue(rf, id, c))

\* rf without the references named in out: what deleting every yielded
\* reference leaves.
DeleteRefs(rf, out) == [nm \in DOMAIN rf \ Range(out) |-> rf[nm]]

\* What a reference holds when its target is an object that is not a
\* commit, a blob or a tree: peel(ObjectType::Commit) fails on it.
NotACommit == 0

\* reference.peel(git2::ObjectType::Commit) failing
PeelFails(rf, nm) == rf[nm] = NotACommit

\* for_issue taking a local head it cannot retrieve for a failure
\* (issue.local_head()? for issue.local_head().ok()).
ForIssueFailure_MissingHead(rf, id, c) ==
    IF LocalHead(rf, id) = {} \/ PeelFails(rf, LocalHeadName(id)) THEN "local head"
    ELSE IF /\ c.collect_heads = "BackedByRemoteHead"
            /\ \E nm \in RemoteRefs(rf, id, "Head") : PeelFails(rf, nm) THEN "remote head"
    ELSE IF \E nm \in LocalRefs(rf, id, "Leaf") : PeelFails(rf, nm) THEN "local leaf"
    ELSE IF /\ c.consider_remote_refs
            /\ \E nm \in RemoteRefs(rf, id, "Any") : PeelFails(rf, nm) THEN "remote ref"
    ELSE "none"

\* The step of for_issue that fails, in the order of the code: the peel of
\* the local head, under BackedByRemoteHead the peel of a remote head, the
\* peel of a local leaf in push_ref_parents, with consider_remote_refs the
\* peel of a remote reference.  Without a local head the remote heads are
\* not gone through.
ForIssueFailure(rf, id, c) ==
    IF LocalHead(rf, id) # {} /\ PeelFails(rf, LocalHeadName(id)) THEN "local head"
    ELSE IF /\ LocalHead(rf, id) # {}
            /\ c.collect_heads = "BackedByRemoteHead"
            /\ \E nm \in RemoteRefs(rf, id, "Head") : PeelFails(rf, nm) THEN "remote head"
    ELSE IF \E nm \in LocalRefs(rf, id, "Leaf") : PeelFails(rf, nm) THEN "local leaf"
    ELSE IF /\ c.consider_remote_refs
            /\ \E nm \in RemoteRefs(rf, id, "Any") : PeelFails(rf, nm) THEN "remote ref"
    ELSE "none"

\* rf without the references that cannot be peeled.
Peelable(rf) == [nm \in {x \in DOMAIN rf : ~PeelFails(rf, x)} |-> rf[nm]]

\* for_issue going on past a reference it cannot peel and returning what
\* the others give, next to the error.
ForIssueResult_SkipBroken(rf, id, c) ==
    [err |-> IF ForIssueFailure(rf, id, c) = "none" THEN "Ok" ELSE "CannotGetCommit",
     out |-> Collectable(Peelable(rf), id, c)]

\* What for_issue returns: the first failing step ends the call with the
\* error, the watchers built so far are dropped with it and nothing is
\* yielded; otherwise the iterator is returned.
ForIssueResult(rf, id, c) ==
    IF ForIssueFailure(rf, id, c) # "none"
    THEN [err |-> "CannotGetCommit", out |-> <<>>]
    ELSE [err |-> "Ok", out |-> Collectable(rf, id, c)]

(***************************************************************************)
(* RepositoryExt (src/src/repository.rs)                                   *)
(***************************************************************************)
\* find_issue looking for the local head only.
FindIssueResult_LocalOnly(rf, id) ==
    IF LocalHead(rf, id) # {}
    THEN [err |-> "Ok", id |-> id]
    ELSE [err |-> "CannotFindIssueHead", id |-> id]

\* RepositoryExt::find_issue
FindIssueResult(rf, id) ==
    IF Heads(rf, id) # {}
    THEN [err |-> "Ok", id |-> id]
    ELSE [err |-> "CannotFindIssueHead", id |-> id]

\* Issue::new: the handle of an id; it looks nothing up.
NewIssue(id) == [err |-> "Ok", id |-> id]

RECURSIVE FirstParentMessages_LastParent(_)
\* first_parent_messages following the last parent of every commit.
FirstParentMessages_LastParent(id) ==
    <<id>> \o (IF commits[id] = <<>> THEN <<>>
               ELSE FirstParentMessages_LastParent(commits[id][Len(commits[id])]))

RECURSIVE FirstParentMessages(_)
\* RepositoryExt::first_parent_messages: the revwalk with id pushed,
\* simplified to first parents and sorted topologically: id, its first
\* parent, the first parent of that, down to a commit without parents.
FirstParentMessages(id) ==
    <<id>> \o (IF commits[id] = <<>> THEN <<>> ELSE FirstParentMessages(commits[id][1]))

RECURSIVE FirstFound(_, _)
\* The loop of issue_with_message: the first id of the walk find_issue
\* succeeds on, 0 when the walk ends without one.
FirstFound(rf, walk) ==
    IF walk = <<>> THEN 0
    ELSE IF FindIssueResult(rf, Head(walk)).err = "Ok" THEN Head(walk)
    ELSE FirstFound(rf, Tail(walk))

\* issue_with_message returning the last issue of the walk, the one nearest
\* to the root.
IssueWithMessage_Farthest(rf, message) ==
    LET found == FirstFound(rf, Reverse(FirstParentMessages(message)))
    IN  IF found # 0 THEN [err |-> "Ok", id |-> found]
        ELSE [err |-> "NoTreeInitFound", id |-> message]

\* RepositoryExt::issue_with_message
IssueWithMessage(rf, message) ==
    LET found == FirstFound(rf, FirstParentMessages(message))
    IN  IF found # 0 THEN [err |-> "Ok", id |-> found]
        ELSE [err |-> "NoTreeInitFound", id |-> message]

\* name.ends_with("/head")
EndsWithHead(nm) == Len(nm) >= 2 /\ nm[Len(nm)] = "head"

\* issue_by_head_ref taking the third segment from the end.
IssueByHeadRef_ThirdFromEnd(nm) ==
    IF ~EndsWithHead(nm) THEN [err |-> "MalFormedHeadReference", id |-> 0]
    ELSE LET hash == IF Len(nm) >= 3 THEN nm[Len(nm) - 2] ELSE nm[1]
         IN  IF OidFromStr(hash) = 0 THEN [err |-> "OidFormatError", id |-> 0]
             ELSE NewIssue(OidFromStr(hash))

\* issue_by_head_ref without the test of the end of the name.
IssueByHeadRef_NoSuffixTest(nm) ==
    LET hash == IF Len(nm) >= 2 THEN nm[Len(nm) - 1] ELSE ""
    IN  IF OidFromStr(hash) = 0 THEN [err |-> "OidFormatError", id |-> 0]
        ELSE NewIssue(OidFromStr(hash))

\* RepositoryExt::issue_by_head_ref: the name has to end with "/head";
\* rsplitn(3, "/").nth(1) is its second segment from the end, which
\* Oid::from_str has to accept.
IssueByHeadRef(nm) ==
    IF ~EndsWithHead(nm) THEN [err |-> "MalFormedHeadReference", id |-> 0]
    ELSE LET hash == nm[Len(nm) - 1]
         IN  IF OidFromStr(hash) = 0 THEN [err |-> "OidFormatError", id |-> 0]
             ELSE NewIssue(OidFromStr(hash))

\* A path prefix matched segment by segment.
HasPrefix(nm, prefix) == Len(nm) >= Len(prefix) /\ SubSeq(nm, 1, Len(prefix)) = prefix

\* references_glob("<prefix>/dit/**/head"): the name starts with the
\* prefix and "dit", ends with "head" and has something in between.
GlobPrefixDitHead(rf, prefix) ==
    {nm \in DOMAIN rf :
        /\ HasPrefix(nm, prefix \o <<"dit">>)
        /\ Len(nm) >= Len(prefix) + 3
        /\ nm[Len(nm)] = "head"}

\* references_glob("**/dit/**/head"): "dit" is a segment of the name with
\* something before it, the name ends with "head" and has something in
\* between.
GlobAnyDitHead(rf) ==
    {nm \in DOMAIN rf :
        /\ \E i \in 2..(Len(nm) - 2) : nm[i] = "dit"
        /\ nm[Len(nm)] = "head"}

\* HeadRefsToIssuesIter collected into UniqueIssues: every reference goes
\* through issue_by_head_ref, the first error ends the collection, the set
\* holds each issue once.
CollectIssues(names) ==
    IF \E nm \in names : IssueByHeadRef(nm).err # "Ok"
    THEN [err |-> (CHOOSE e \in {IssueByHeadRef(nm).err : nm \in names} : e # "Ok"), issues |-> {}]
    ELSE [err |-> "Ok", issues |-> {IssueByHeadRef(nm).id : nm \in names}]

\* RepositoryExt::issues_with_prefix
IssuesWithPrefix(rf, prefix) == CollectIssues(GlobPrefixDitHead(rf, prefix))

\* issues listing the local heads only.
Issues_LocalOnly(rf) == CollectIssues(GlobPrefixDitHead(rf, <<"refs">>))

\* RepositoryExt::issues
Issues(rf) == CollectIssues(GlobAnyDitHead(rf))

RECURSIVE UntilAnyInitial(_, _)
\* Messages::until_any_initial: the walk up to the first commit that is the
\* initial message of an issue, that commit included.
UntilAnyInitial(rf, walk) ==
    IF walk = <<>> THEN <<>>
    ELSE IF FindIssueResult(rf, Head(walk)).err = "Ok" THEN <<Head(walk)>>
    ELSE <<Head(walk)>> \o UntilAnyInitial(rf, Tail(walk))

\* issue_messages_iter handing out the first parent walk as it is.
IssueMessagesIter_Whole(rf, commit) == FirstParentMessages(commit)

\* RepositoryExt::issue_messages_iter
IssueMessagesIter(rf, commit) == UntilAnyInitial(rf, FirstParentMessages(commit))

(***************************************************************************)
(* The state machine.                                                      *)
(***************************************************************************)
NoConfig == NewCollectableRefs

Result(op, id, c, out, err) == [op |-> op, id |-> id, cfg |-> c, out |-> out, err |-> err]

\* ret holds the outcome of the last call into RepositoryExt or
\* CollectableRefs; any other operation clears it.
NoResult == Result("none", 0, NoConfig, <<>>, "Ok")

\* The sequences of parents a new commit can be given.
ParentSeqs ==
    {ps \in UNION {[1..k -> Nodes] : k \in 0..MaxParents} :
        \A i, j \in 1..Len(ps) : i # j => ps[i] # ps[j]}

SetRef(rf, nm, t) == [x \in DOMAIN rf \cup {nm} |-> IF x = nm THEN t ELSE rf[x]]

\* The exploration keeps at most MaxRefs references, filed under at most
\* MaxIssues issues.
MayWrite(nm, id) ==
    /\ nm \in DOMAIN refs \/ Cardinality(DOMAIN refs) < MaxRefs
    /\ id \in IssuesWithRefs(refs) \/ Cardinality(IssuesWithRefs(refs)) < MaxIssues

\* The calls that only read the repository.  A query leaves the repository
\* as it found it, so whatever can follow it can follow the state before
\* it: the exploration goes on from there, and from a query's outcome only
\* into the deletion of what it yielded.
Queries ==
    {"for_issue", "find_issue", "issue_with_message", "issue_by_head_ref", "issues",
     "issues_with_prefix", "first_parent_messages", "issue_messages_iter"}

\* What ret holds while an iterator is in the hands of the caller.
Iterating == {"iterating", "exhausted", "deleting"}

Idle == ret.op \notin Queries \cup Iterating

Init ==
    /\ commits = <<>>
    /\ refs = <<>>
    /\ ret = NoResult

\* RepositoryExt::create_issue
CreateIssue(ps) ==
    LET id == Len(commits) + 1 IN
    /\ Idle
    /\ id <= MaxCommits
    /\ MayWrite(LocalHeadName(id), id)
    /\ commits' = Append(commits, ps)
    /\ refs' = SetRef(refs, LocalHeadName(id), id)
    /\ ret' = Result("create_issue", id, NoConfig, ps, "Ok")

\* Issue::add_message: a new commit and a leaf reference named after it.
AddMessage(id, ps) ==
    LET msg == Len(commits) + 1 IN
    /\ Idle
    /\ msg <= MaxCommits
    /\ MayWrite(LocalLeafName(id, OidToStr(msg)), id)
    /\ commits' = Append(commits, ps)
    /\ refs' = SetRef(refs, LocalLeafName(id, OidToStr(msg)), msg)
    /\ ret' = NoResult

\* Issue::update_head with replace = true
UpdateHead(id, t) ==
    /\ Idle
    /\ MayWrite(LocalHeadName(id), id)
    /\ refs' = SetRef(refs, LocalHeadName(id), t)
    /\ ret' = NoResult
    /\ UNCHANGED commits

\* A fetch from a remote: the remote-tracking head of an issue is set, or
\* the remote-tracking leaf of one of its messages appears.
Fetch(r, id, t, head) ==
    LET nm == IF head THEN RemoteHeadName(r, id) ELSE RemoteLeafName(r, id, OidToStr(t)) IN
    /\ Idle
    /\ MayWrite(nm, id)
    /\ refs' = SetRef(refs, nm, t)
    /\ ret' = NoResult
    /\ UNCHANGED commits

\* A leaf reference written by hand under a name of its own.
UpdateRef(id, t) ==
    /\ Idle
    /\ MayWrite(LocalLeafName(id, "x"), id)
    /\ refs' = SetRef(refs, LocalLeafName(id, "x"), t)
    /\ ret' = NoResult
    /\ UNCHANGED commits

\* CollectableRefs::for_issue, iterated to its end by the caller.
ForIssueCall(id, c) ==
    /\ Idle
    /\ ret' = Result("for_issue", id, c, ForIssueResult(refs, id, c).out,
                     ForIssueResult(refs, id, c).err)
    /\ UNCHANGED <<commits, refs>>

\* The collection deleting every reference of the issue.
Collect_WholeIssue ==
    /\ ret.op = "for_issue"
    /\ ret.err = "Ok"
    /\ refs' = [nm \in {x \in DOMAIN refs : IssuePart(x) # OidToStr(ret.id)} |-> refs[nm]]
    /\ ret' = Result("collected", ret.id, NoConfig, ret.out, "Ok")
    /\ UNCHANGED commits

\* ReferenceCollector: every reference the iterator yielded is deleted.
Collect ==
    /\ ret.op = "for_issue"
    /\ ret.err = "Ok"
    /\ refs' = DeleteRefs(refs, ret.out)
    /\ ret' = Result("collected", ret.id, NoConfig, ret.out, "Ok")
    /\ UNCHANGED commits

\* RepositoryExt::find_issue
FindIssue(id) ==
    /\ Idle
    /\ ret' = Result("find_issue", FindIssueResult(refs, id).id, NoConfig, <<>>,
                     FindIssueResult(refs, id).err)
    /\ UNCHANGED <<commits, refs>>

Next ==
    \/ \E ps \in ParentSeqs : CreateIssue(ps)
    \/ \E id \in Nodes, ps \in ParentSeqs : AddMessage(id, ps)
    \/ \E id \in Nodes, t \in Nodes : UpdateHead(id, t)
    \/ \E r \in Remotes, id \in Nodes, t \in Nodes, head \in BOOLEAN : Fetch(r, id, t, head)
    \/ \E id \in Nodes, t \in Nodes : UpdateRef(id, t)
    \/ \E id \in IssuesWithRefs(refs), c \in Configs : ForIssueCall(id, c)
    \/ Collect
    \/ \E id \in Oids : FindIssue(id)

Spec == Init /\ [][Next]_vars

(***************************************************************************)
(* for_issue on a repository with a reference it cannot peel: SpecErr has  *)
(* the operations that write messages, heads and remote references, the    *)
(* breaking of a reference, for_issue and the collection.                  *)
(***************************************************************************)
\* The exploration breaks at most MaxBroken references.
MaxBroken == 1

\* A reference is set by hand to an object that is not a commit.
BreakRef(nm) ==
    /\ Idle
    /\ Cardinality({x \in DOMAIN refs : PeelFails(refs, x)}) < MaxBroken
    /\ ~PeelFails(refs, nm)
    /\ refs' = [refs EXCEPT ![nm] = NotACommit]
    /\ ret' = NoResult
    /\ UNCHANGED commits

NextErr ==
    \/ \E ps \in ParentSeqs : CreateIssue(ps)
    \/ \E id \in Nodes, ps \in ParentSeqs : AddMessage(id, ps)
    \/ \E id \in Nodes, t \in Nodes : UpdateHead(id, t)
    \/ \E r \in Remotes, id \in Nodes, t \in Nodes, head \in BOOLEAN : Fetch(r, id, t, head)
    \/ \E nm \in DOMAIN refs : BreakRef(nm)
    \/ \E id \in IssuesWithRefs(refs), c \in Configs : ForIssueCall(id, c)
    \/ Collect

SpecErr == Init /\ [][NextErr]_vars

(***************************************************************************)
(* The iterators item by item: SpecDrain has the operations that write the *)
(* repository, for_issue handing out its iterator, every call of next on   *)
(* it, the ReferenceCollector over what was yielded, every call of next on *)
(* that, and the caller letting go of either at any point.                 *)
(***************************************************************************)
\* The iterator for_issue returns, before its first item: the revwalk has
\* yielded nothing, the items merged from the second watcher wait in
\* current.
NewIter(w) == [walk |-> Revwalk(w.seeds), watch |-> w.watch, current |-> w.current, visited |-> {}]

RECURSIVE Advance(_)
\* RefsReferringTo::next, up to the pop: while no item waits, the revwalk
\* is driven; the references waiting for the id it yields leave the watch
\* map and become the waiting items.
Advance(it) ==
    IF it.current # <<>> \/ it.walk = <<>> THEN it
    ELSE Advance([walk |-> Tail(it.walk),
                  watch |-> [it.watch EXCEPT ![Head(it.walk)] = <<>>],
                  current |-> it.watch[Head(it.walk)],
                  visited |-> it.visited \cup {Head(it.walk)}])

\* What ret holds while the caller iterates: the iterator, the items
\* yielded so far, the references as for_issue found them, and for the
\* ReferenceCollector the references it still holds and those it deleted.
IterResult(op, id, c, it, out, store, todo, deleted) ==
    [op |-> op, id |-> id, cfg |-> c, err |-> "Ok", it |-> it, out |-> out,
     store |-> store, todo |-> todo, deleted |-> deleted]

\* CollectableRefs::for_issue returning its iterator.
ForIssueIter(id, c) ==
    /\ Idle
    /\ ForIssueFailure(refs, id, c) = "none"
    /\ ret' = IterResult("iterating", id, c, NewIter(ForIssue(refs, id, c)), <<>>, refs, <<>>, {})
    /\ UNCHANGED <<commits, refs>>

\* RefsReferringTo::next: the item popped off the waiting ones, or None
\* once the revwalk is exhausted.
IterNext ==
    /\ ret.op = "iterating"
    /\ LET it == Advance(ret.it) IN
        IF it.current = <<>>
        THEN ret' = [ret EXCEPT !.op = "exhausted", !.it = it]
        ELSE ret' = [ret EXCEPT !.it = [it EXCEPT !.current = SubSeq(@, 1, Len(@) - 1)],
                                !.out = Append(@, it.current[Len(it.current)])]
    /\ UNCHANGED <<commits, refs>>

\* The ReferenceCollector wrapping every reference the caller was handed.
IntoCollector_AllWatched ==
    /\ ret.op \in {"iterating", "exhausted"}
    /\ ret' = [ret EXCEPT !.op = "deleting",
                          !.todo = SeqOf(LocalRefs(ret.store, ret.id, "Any"))]
    /\ UNCHANGED <<commits, refs>>

\* The ReferenceCollector is built over the references collected from the
\* iterator, whether the caller iterated it to its end or not.
IntoCollector ==
    /\ ret.op \in {"iterating", "exhausted"}
    /\ ret' = [ret EXCEPT !.op = "deleting", !.todo = ret.out]
    /\ UNCHANGED <<commits, refs>>

\* ReferenceCollector::next: the next reference it holds is deleted.
CollectorNext ==
    /\ ret.op = "deleting"
    /\ ret.todo # <<>>
    /\ refs' = DeleteRefs(refs, <<Head(ret.todo)>>)
    /\ ret' = [ret EXCEPT !.todo = Tail(@), !.deleted = @ \cup {Head(ret.todo)}]
    /\ UNCHANGED commits

\* The caller drops the iterator it holds, iterated to its end or not.
Abandon ==
    /\ ret.op \in Iterating
    /\ ret' = NoResult
    /\ UNCHANGED <<commits, refs>>

NextDrain ==
    \/ \E ps \in ParentSeqs : CreateIssue(ps)
    \/ \E id \in Nodes, ps \in ParentSeqs : AddMessage(id, ps)
    \/ \E id \in Nodes, t \in Nodes : UpdateHead(id, t)
    \/ \E r \in Remotes, id \in Nodes, t \in Nodes, head \in BOOLEAN : Fetch(r, id, t, head)
    \/ \E id \in Nodes, t \in Nodes : UpdateRef(id, t)
    \/ \E id \in IssuesWithRefs(refs), c \in Configs : ForIssueIter(id, c)
    \/ IterNext
    \/ IntoCollector
    \/ CollectorNext
    \/ Abandon

SpecDrain == Init /\ [][NextDrain]_vars

(***************************************************************************)
(* The calls into RepositoryExt, explored on their own: SpecRepo has the   *)
(* operations that write the repository and every query of the trait.      *)
(***************************************************************************)
\* The outcome of a query: the argument it was given, the issue it
\* returned if it returns one, and whatever else it returned.
RepoResult(op, arg, id, out, err) ==
    [op |-> op, arg |-> arg, id |-> id, cfg |-> NoConfig, out |-> out, err |-> err]

\* The prefixes issues_with_prefix is called with.
Prefixes == {<<"refs">>} \cup {<<"refs", "remotes", r>> : r \in Remotes}

\* create_issue updating the head without force: a head that exists is
\* left as it is.
CreateIssueSame_NotForced(n) ==
    /\ Idle
    /\ MayWrite(LocalHeadName(n), n)
    /\ refs' = IF LocalHeadName(n) \in DOMAIN refs THEN refs ELSE SetRef(refs, LocalHeadName(n), n)
    /\ ret' = Result("create_issue", n, NoConfig, commits[n], "Ok")
    /\ UNCHANGED commits

\* RepositoryExt::create_issue with the signatures, message, tree and
\* parents of a commit that exists: the commit written is that commit, the
\* head reference of the issue is set whatever it held.
CreateIssueSame(n) ==
    /\ Idle
    /\ MayWrite(LocalHeadName(n), n)
    /\ refs' = SetRef(refs, LocalHeadName(n), n)
    /\ ret' = Result("create_issue", n, NoConfig, commits[n], "Ok")
    /\ UNCHANGED commits

\* The name of a branch of the repository that is no reference of an
\* issue and ends with "/head".
BranchName == <<"refs", "heads", "topic", "head">>

\* git branch topic/head: a branch is set on a commit.
Branch(t) ==
    /\ Idle
    /\ BranchName \in DOMAIN refs \/ Cardinality(DOMAIN refs) < MaxRefs
    /\ refs' = SetRef(refs, BranchName, t)
    /\ ret' = NoResult
    /\ UNCHANGED commits

\* RepositoryExt::issue_with_message
IssueWithMessageCall(message) ==
    /\ Idle
    /\ ret' = RepoResult("issue_with_message", message, IssueWithMessage(refs, message).id,
                         <<>>, IssueWithMessage(refs, message).err)
    /\ UNCHANGED <<commits, refs>>

\* RepositoryExt::issue_by_head_ref
IssueByHeadRefCall(nm) ==
    /\ Idle
    /\ ret' = RepoResult("issue_by_head_ref", nm, IssueByHeadRef(nm).id, <<>>,
                         IssueByHeadRef(nm).err)
    /\ UNCHANGED <<commits, refs>>

\* RepositoryExt::issues
IssuesCall ==
    /\ Idle
    /\ ret' = RepoResult("issues", <<>>, 0, Issues(refs).issues, Issues(refs).err)
    /\ UNCHANGED <<commits, refs>>

\* RepositoryExt::issues_with_prefix
IssuesWithPrefixCall(prefix) ==
    /\ Idle
    /\ ret' = RepoResult("issues_with_prefix", prefix, 0, IssuesWithPrefix(refs, prefix).issues,
                         IssuesWithPrefix(refs, prefix).err)
    /\ UNCHANGED <<commits, refs>>

\* RepositoryExt::first_parent_messages, iterated to its end.
FirstParentMessagesCall(id) ==
    /\ Idle
    /\ ret' = RepoResult("first_parent_messages", id, 0, FirstParentMessages(id), "Ok")
    /\ UNCHANGED <<commits, refs>>

\* RepositoryExt::issue_messages_iter, iterated to its end.
IssueMessagesIterCall(commit) ==
    /\ Idle
    /\ ret' = RepoResult("issue_messages_iter", commit, 0, IssueMessagesIter(refs, commit), "Ok")
    /\ UNCHANGED <<commits, refs>>

NextRepo ==
    \/ \E ps \in ParentSeqs : CreateIssue(ps)
    \/ \E n \in Nodes : CreateIssueSame(n)
    \/ \E id \in Nodes, ps \in ParentSeqs : AddMessage(id, ps)
    \/ \E id \in Nodes, t \in Nodes : UpdateHead(id, t)
    \/ \E r \in Remotes, id \in Nodes, t \in Nodes, head \in BOOLEAN : Fetch(r, id, t, head)
    \/ \E t \in Nodes : Branch(t)
    \/ \E id \in IssuesWithRefs(refs), c \in Configs : ForIssueCall(id, c)
    \/ Collect
    \/ \E id \in Oids : FindIssue(id)
    \/ \E message \in Nodes : IssueWithMessageCall(message)
    \/ \E nm \in DOMAIN refs : IssueByHeadRefCall(nm)
    \/ IssuesCall
    \/ \E prefix \in Prefixes : IssuesWithPrefixCall(prefix)
    \/ \E id \in Nodes : FirstParentMessagesCall(id)
    \/ \E commit \in Nodes : IssueMessagesIterCall(commit)

SpecRepo == Init /\ [][NextRepo]_vars

TypeOK ==
    /\ Len(commits) <= MaxCommits
    /\ \A n \in Nodes : \A p \in Parents(n) : p < n
    /\ \A nm \in DOMAIN refs : refs[nm] \in Nodes
    /\ Cardinality(DOMAIN refs) <= MaxRefs

(***************************************************************************)
(* What the claims speak of, stated over reference names and reachability  *)
(* and not over the watchers.                                              *)
(***************************************************************************)
Count(seq, x) == Cardinality({i \in 1..Len(seq) : seq[i] = x})

\* The local tip (leaf) references of an issue.
Tips(rf, id) == {nm \in DOMAIN rf : Len(nm) = 5 /\ nm = LocalLeafName(id, nm[5])}

\* The remote references of an issue, heads and tips.
RemoteNames(rf, id) ==
    {nm \in DOMAIN rf : \E r \in Remotes :
        \/ nm = RemoteHeadName(r, id)
        \/ Len(nm) = 7 /\ nm = RemoteLeafName(r, id, nm[7])}

RemoteHeads(rf, id) == {nm \in DOMAIN rf : \E r \in Remotes : nm = RemoteHeadName(r, id)}

RemoteTips(rf, id) == RemoteNames(rf, id) \ RemoteHeads(rf, id)

HasLocalHead(rf, id) == LocalHeadName(id) \in DOMAIN rf

LocalHeadTarget(rf, id) == IF HasLocalHead(rf, id) THEN {rf[LocalHeadName(id)]} ELSE {}

RemoteTargets(rf, id, c) ==
    IF c.consider_remote_refs THEN {rf[nm] : nm \in RemoteNames(rf, id)} ELSE {}

\* The seeded commits of an issue: the local head's target, the parents of
\* the target of every local tip other than those in except, and with
\* consider_remote_refs the target of every remote reference.
SeededBut(rf, id, c, except) ==
    LocalHeadTarget(rf, id)
        \cup UNION {Parents(rf[t]) : t \in Tips(rf, id) \ except}
        \cup RemoteTargets(rf, id, c)

Seeded(rf, id, c) == SeededBut(rf, id, c, {})

Yielded == Range(ret.out)

\* C1: a local tip whose target is a seeded commit or an ancestor of one is
\* yielded by for_issue, exactly once, also when several tips share the
\* target.
C1_Sufficiency ==
    ret.op = "for_issue" =>
        \A t \in Tips(refs, ret.id) :
            refs[t] \in Reach(Seeded(refs, ret.id, ret.cfg)) => Count(ret.out, t) = 1

\* Two tips of the issue share a target below the local head, and both were
\* yielded.
C1_Witness ==
    /\ ret.op = "for_issue"
    /\ \E t1, t2 \in Tips(refs, ret.id) :
        /\ t1 # t2
        /\ refs[t1] = refs[t2]
        /\ refs[t1] \in Reach(LocalHeadTarget(refs, ret.id))
        /\ {t1, t2} \subseteq Yielded

\* C2: a local tip whose target is reachable neither from the local head,
\* nor from a parent of another local tip's target, nor (with
\* consider_remote_refs) from a remote reference, is not yielded; an issue
\* whose only reference is one tip yields nothing.
C2_NoSelfMatch ==
    ret.op = "for_issue" =>
        /\ \A t \in Tips(refs, ret.id) :
            refs[t] \notin Reach(SeededBut(refs, ret.id, ret.cfg, {t})) => t \notin Yielded
        /\ (\E t \in Tips(refs, ret.id) :
                {nm \in DOMAIN refs : IssuePart(nm) = OidToStr(ret.id)} = {t})
            => ret.out = <<>>

\* The issue's only reference is a tip on a commit with parents, and
\* nothing was yielded.
C2_Witness ==
    /\ ret.op = "for_issue"
    /\ \E t \in Tips(refs, ret.id) :
        /\ {nm \in DOMAIN refs : IssuePart(nm) = OidToStr(ret.id)} = {t}
        /\ Parents(refs[t]) # {}
    /\ ret.out = <<>>

\* C3: under BackedByRemoteHead the local head is yielded exactly when its
\* target is the target of a remote head of the issue or an ancestor of one.
C3_HeadBackedByRemoteHead ==
    (ret.op = "for_issue" /\ ret.cfg.collect_heads = "BackedByRemoteHead"
        /\ HasLocalHead(refs, ret.id))
    => (LocalHeadName(ret.id) \in Yielded
        <=> \E rh \in RemoteHeads(refs, ret.id) :
                refs[LocalHeadName(ret.id)] \in Ancestors(refs[rh]))

\* The local head is kept although a local tip replies to it and, with
\* consider_remote_refs, a remote tip lies above it: no remote head does.
C3_Witness ==
    /\ ret.op = "for_issue"
    /\ ret.cfg.collect_heads = "BackedByRemoteHead"
    /\ ret.cfg.consider_remote_refs
    /\ HasLocalHead(refs, ret.id)
    /\ \E t \in Tips(refs, ret.id) : refs[LocalHeadName(ret.id)] \in Parents(refs[t])
    /\ \E rt \in RemoteTips(refs, ret.id) :
        refs[LocalHeadName(ret.id)] \in Ancestors(refs[rt])
    /\ LocalHeadName(ret.id) \notin Yielded

\* The local head is yielded: a remote head lies strictly above it.
C3_WitnessBacked ==
    /\ ret.op = "for_issue"
    /\ ret.cfg.collect_heads = "BackedByRemoteHead"
    /\ \E rh \in RemoteHeads(refs, ret.id) :
        /\ HasLocalHead(refs, ret.id)
        /\ refs[LocalHeadName(ret.id)] \in Ancestors(refs[rh]) \ {refs[rh]}
    /\ LocalHeadName(ret.id) \in Yielded

\* C4: under Never the local head is not yielded, whatever the remote
\* references and consider_remote_refs are.
C4_HeadNeverCollected ==
    (ret.op = "for_issue" /\ ret.cfg.collect_heads = "Never")
    => LocalHeadName(ret.id) \notin Yielded

\* Under Never, with consider_remote_refs, a remote head lies strictly above
\* the local head, and the local head was not yielded.
C4_Witness ==
    /\ ret.op = "for_issue"
    /\ ret.cfg.collect_heads = "Never"
    /\ ret.cfg.consider_remote_refs
    /\ HasLocalHead(refs, ret.id)
    /\ \E rh \in RemoteHeads(refs, ret.id) :
        refs[LocalHeadName(ret.id)] \in Ancestors(refs[rh]) \ {refs[rh]}
    /\ LocalHeadName(ret.id) \notin Yielded

\* A head reference of the issue exists, local or remote.
HasHead(rf, id) == HasLocalHead(rf, id) \/ RemoteHeads(rf, id) # {}

\* C5: a collection pass never deletes the last head reference of an issue:
\* an issue with a head before the pass has one after it, and find_issue on
\* its id succeeds.
C5_LastHeadKept ==
    [][ret'.op = "collected" =>
        \A id \in Oids :
            HasHead(refs, id) => HasHead(refs', id) /\ FindIssueResult(refs', id).err = "Ok"]_vars

\* A pass deleted the local head of its issue, and a head is left.
C5_Witness ==
    /\ ret.op = "collected"
    /\ LocalHeadName(ret.id) \in Yielded
    /\ ~HasLocalHead(refs, ret.id)
    /\ HasHead(refs, ret.id)

\* C6: right after a pass (for_issue iterated to its end, every yielded
\* reference deleted) for_issue with the same configuration yields nothing.
C6_Idempotent ==
    [][(ret.op = "for_issue" /\ ret'.op = "collected")
        => Collectable(refs', ret.id, ret.cfg) = <<>>]_vars

\* A pass deleted the local head and a tip on a commit with parents.
C6_Witness ==
    /\ ret.op = "collected"
    /\ LocalHeadName(ret.id) \in Yielded
    /\ \E n \in Nodes :
        /\ LocalLeafName(ret.id, OidToStr(n)) \in Yielded
        /\ Parents(n) # {}

\* The local tips among yielded references.
LocalTipsOf(out) ==
    {nm \in Range(out) : Len(nm) = 5 /\ nm[2] = "dit" /\ nm[4] = "leaves"}

\* rf without the remote references of the issue.
WithoutRemotes(rf, id) == [nm \in DOMAIN rf \ RemoteNames(rf, id) |-> rf[nm]]

\* C7: without consider_remote_refs the local tips for_issue yields are the
\* same for every two stores that differ only in the issue's remote
\* references, and no remote reference is yielded.  Every such store is
\* compared with the one store they all share, the store without the
\* issue's remote references.
C7_RemoteIndependence ==
    (ret.op = "for_issue" /\ ~ret.cfg.consider_remote_refs) =>
        /\ LocalTipsOf(Collectable(WithoutRemotes(refs, ret.id), ret.id, ret.cfg))
                = LocalTipsOf(ret.out)
        /\ \A nm \in Yielded : ~IsRemoteName(nm)

\* Without consider_remote_refs a local tip lies below a remote reference
\* of the issue and was not yielded.
C7_Witness ==
    /\ ret.op = "for_issue"
    /\ ~ret.cfg.consider_remote_refs
    /\ \E t \in Tips(refs, ret.id) :
        /\ \E rn \in RemoteNames(refs, ret.id) : refs[t] \in Ancestors(refs[rn])
        /\ t \notin Yielded

\* The references filed under an issue.
OwnNames(rf, id) == {nm \in DOMAIN rf : IssuePart(nm) = OidToStr(id)}

\* rf with the references of the issue only.
OwnRefs(rf, id) == [nm \in OwnNames(rf, id) |-> rf[nm]]

\* C8: what for_issue yields for an issue is the same for every two stores
\* that agree on the issue's own references (each is compared with the
\* store they share, the one holding the issue's references only); a tip
\* below another issue's references and below no seed of its own issue is
\* not yielded.
C8_NoCrossIssueLeak ==
    ret.op = "for_issue" =>
        /\ Collectable(OwnRefs(refs, ret.id), ret.id, ret.cfg) = ret.out
        /\ \A t \in Tips(refs, ret.id) :
            (/\ refs[t] \in Reach({refs[nm] : nm \in DOMAIN refs \ OwnNames(refs, ret.id)})
             /\ refs[t] \notin Reach(Seeded(refs, ret.id, ret.cfg)))
            => t \notin Yielded

\* A tip lies below the local head of another issue and below no seed of
\* its own issue, and was not yielded.
C8_Witness ==
    /\ ret.op = "for_issue"
    /\ \E t \in Tips(refs, ret.id), o \in Nodes \ {ret.id} :
        /\ HasLocalHead(refs, o)
        /\ refs[t] \in Ancestors(refs[LocalHeadName(o)])
        /\ refs[t] \notin Reach(Seeded(refs, ret.id, ret.cfg))
        /\ t \notin Yielded

\* C9 as claimed: with consider_remote_refs a remote tip whose target is
\* reachable from another seed of the issue is yielded.
C9_RemoteTipsCollected ==
    (ret.op = "for_issue" /\ ret.cfg.consider_remote_refs) =>
        \A rt \in RemoteTips(refs, ret.id) :
            refs[rt] \in Reach(LocalHeadTarget(refs, ret.id)
                                \cup UNION {Parents(refs[t]) : t \in Tips(refs, ret.id)}
                                \cup {refs[nm] : nm \in RemoteNames(refs, ret.id) \ {rt}})
            => rt \in Yielded

\* C9: with consider_remote_refs the remote references of the issue are
\* seeds only: none of them is yielded, redundant or not.
C9_RemoteRefsOnlySeeded ==
    (ret.op = "for_issue" /\ ret.cfg.consider_remote_refs) =>
        \A nm \in RemoteNames(refs, ret.id) : nm \notin Yielded

\* With consider_remote_refs a remote tip lies below the local head and was
\* not yielded.
C9_Witness ==
    /\ ret.op = "for_issue"
    /\ ret.cfg.consider_remote_refs
    /\ \E rt \in RemoteTips(refs, ret.id) :
        /\ refs[rt] \in Reach(LocalHeadTarget(refs, ret.id))
        /\ rt \notin Yielded

\* C10: find_issue(id) succeeds with the issue of that id exactly when a
\* head reference of id exists, local or remote, fails with
\* CannotFindIssueHead otherwise, and changes no reference.
C10_FindIssue ==
    /\ [](ret.op = "find_issue" =>
            /\ ret.err = "Ok" <=> HasHead(refs, ret.id)
            /\ ~HasHead(refs, ret.id) => ret.err = "CannotFindIssueHead")
    /\ [][ret'.op = "find_issue" =>
            /\ refs' = refs
            /\ \E id \in Oids : ret'.id = id /\ (ret'.err = "Ok" <=> HasHead(refs, id))]_vars

\* find_issue failed on the id of a commit that exists and has a tip filed
\* under it.
C10_Witness ==
    /\ ret.op = "find_issue"
    /\ ret.err = "CannotFindIssueHead"
    /\ ret.id \in Nodes
    /\ Tips(refs, ret.id) # {}

\* find_issue succeeded on an issue that has a remote head only.
C10_WitnessRemote ==
    /\ ret.op = "find_issue"
    /\ ret.err = "Ok"
    /\ ~HasLocalHead(refs, ret.id)

(***************************************************************************)
(* The queries of RepositoryExt, checked under SpecRepo.                   *)
(***************************************************************************)
RECURSIVE NthFirstParent(_, _)
\* The commit k first-parent links below n, 0 when the links end before.
NthFirstParent(n, k) ==
    IF k = 0 THEN n
    ELSE IF commits[n] = <<>> THEN 0
    ELSE NthFirstParent(commits[n][1], k - 1)

\* The distances from m at which its first-parent chain has a commit.
OnChain(m) == {k \in 0..Len(commits) : NthFirstParent(m, k) # 0}

\* The distances at which the chain has the root of an issue with a head.
IssuesOnChain(rf, m) == {k \in OnChain(m) : HasHead(rf, NthFirstParent(m, k))}

\* C11: issue_with_message(m) returns the issue of the nearest commit on
\* the first-parent chain of m, m included, that has a head reference, and
\* fails with NoTreeInitFound exactly when no commit on the chain has one.
C11_NearestIssue ==
    ret.op = "issue_with_message" =>
        /\ ret.err = "NoTreeInitFound" <=> IssuesOnChain(refs, ret.arg) = {}
        /\ IssuesOnChain(refs, ret.arg) # {} =>
            /\ ret.err = "Ok"
            /\ \E k \in IssuesOnChain(refs, ret.arg) :
                /\ ret.id = NthFirstParent(ret.arg, k)
                /\ \A j \in IssuesOnChain(refs, ret.arg) : k <= j

\* A message of an issue whose root has the root of another issue as first
\* parent resolved to the nearer issue.
C11_Witness ==
    /\ ret.op = "issue_with_message"
    /\ ret.err = "Ok"
    /\ ~HasHead(refs, ret.arg)
    /\ ret.id = NthFirstParent(ret.arg, 1)
    /\ NthFirstParent(ret.arg, 2) # 0
    /\ HasHead(refs, NthFirstParent(ret.arg, 2))

\* The chain of the message has a commit below the message and no head
\* reference anywhere: the call failed.
C11_WitnessNone ==
    /\ ret.op = "issue_with_message"
    /\ ret.err = "NoTreeInitFound"
    /\ NthFirstParent(ret.arg, 1) # 0

\* C12: after create_issue(parents) returned, the commit of the returned id
\* exists with exactly the given parents, the local head of the issue
\* exists and targets that commit whatever it held before, and a find_issue
\* on the returned id that follows at once succeeds.
C12_CreateIssue ==
    /\ [](ret.op = "create_issue" =>
            /\ ret.id \in Nodes
            /\ commits[ret.id] = ret.out
            /\ HasLocalHead(refs, ret.id)
            /\ refs[LocalHeadName(ret.id)] = ret.id
            /\ FindIssueResult(refs, ret.id) = [err |-> "Ok", id |-> ret.id])
    /\ [][(ret.op = "create_issue" /\ ret'.op = "find_issue" /\ ret'.id = ret.id)
            => ret'.err = "Ok"]_vars
    /\ [][(ret'.op = "create_issue" /\ HasLocalHead(refs, ret'.id))
            => refs'[LocalHeadName(ret'.id)] = ret'.id]_vars

\* create_issue returned the issue of a commit with parents that was there
\* before, so the head reference it set was one that existed.
C12_Witness ==
    /\ ret.op = "create_issue"
    /\ ret.id < Len(commits)
    /\ ret.out # <<>>
    /\ refs[LocalHeadName(ret.id)] = ret.id

\* C13: issue_by_head_ref on the local head of an issue returns the issue
\* of that id, and on any reference whose name ends with the segment "head"
\* and whose segment before it is the text of an id X it returns the issue
\* with id X.
C13_HeadRefRoundTrip ==
    /\ \A U \in Oids : IssueByHeadRef(LocalHeadName(U)) = [err |-> "Ok", id |-> U]
    /\ ret.op = "issue_by_head_ref" =>
        /\ \A U \in Oids : ret.arg = LocalHeadName(U) => (ret.err = "Ok" /\ ret.id = U)
        /\ \A X \in Oids :
            (/\ Len(ret.arg) >= 2
             /\ ret.arg[Len(ret.arg)] = "head"
             /\ ret.arg[Len(ret.arg) - 1] = OidToStr(X))
            => (ret.err = "Ok" /\ ret.id = X)

\* issue_by_head_ref was given the remote head of an issue that has no
\* local head and returned that issue.
C13_Witness ==
    /\ ret.op = "issue_by_head_ref"
    /\ ret.err = "Ok"
    /\ ret.arg \in DOMAIN refs
    /\ ret.arg \in RemoteHeads(refs, ret.id)
    /\ ~HasLocalHead(refs, ret.id)

\* issue_by_head_ref was given the local head of an issue.
C13_WitnessLocal ==
    /\ ret.op = "issue_by_head_ref"
    /\ ret.err = "Ok"
    /\ ret.arg \in DOMAIN refs
    /\ ret.arg = LocalHeadName(ret.id)

\* The head references of an issue filed under a prefix.
HeadsUnder(rf, prefix, id) ==
    {nm \in DOMAIN rf : nm = prefix \o <<"dit", OidToStr(id), "head">>}

\* C14: issues() returns exactly the ids that have at least one head
\* reference, each once also when a local and a remote head name it;
\* issues_with_prefix(p) returns exactly the issues with a head reference
\* under p, so with the prefix "refs" exactly those with a local head.
C14_IssuesDeduplicated ==
    /\ ret.op = "issues" =>
        /\ ret.err = "Ok"
        /\ ret.out = {id \in Oids : HasHead(refs, id)}
        /\ Cardinality(ret.out) = Cardinality({id \in Oids : HasHead(refs, id)})
    /\ ret.op = "issues_with_prefix" =>
        /\ ret.err = "Ok"
        /\ ret.out = {id \in Oids : HeadsUnder(refs, ret.arg, id) # {}}
        /\ ret.arg = <<"refs">> => ret.out = {id \in Oids : HasLocalHead(refs, id)}

\* issues() returned two issues, one of them named by a local and by a
\* remote head.
C14_Witness ==
    /\ ret.op = "issues"
    /\ Cardinality(ret.out) = 2
    /\ \E id \in ret.out : HasLocalHead(refs, id) /\ RemoteHeads(refs, id) # {}

\* issues_with_prefix("refs") left out an issue that has a remote head
\* only.
C14_WitnessPrefix ==
    /\ ret.op = "issues_with_prefix"
    /\ ret.arg = <<"refs">>
    /\ ret.out # {}
    /\ \E id \in Oids : id \notin ret.out /\ RemoteHeads(refs, id) # {}

\* C15: first_parent_messages(id) yields id first, then always the first
\* parent of the commit yielded before, never another parent, no commit
\* twice, and ends right after a commit without parents; built again from
\* the same id it yields the same sequence.
C15_FirstParentOrder ==
    ret.op = "first_parent_messages" =>
        /\ ret.out # <<>>
        /\ ret.out[1] = ret.arg
        /\ \A i \in 1..(Len(ret.out) - 1) :
            /\ commits[ret.out[i]] # <<>>
            /\ ret.out[i + 1] = commits[ret.out[i]][1]
        /\ commits[ret.out[Len(ret.out)]] = <<>>
        /\ \A i, j \in 1..Len(ret.out) : i # j => ret.out[i] # ret.out[j]
        /\ FirstParentMessages(ret.arg) = ret.out

\* The walk started at a commit with two parents, went on to the first and
\* never yielded the second.
C15_Witness ==
    /\ ret.op = "first_parent_messages"
    /\ Len(commits[ret.arg]) = 2
    /\ Len(ret.out) >= 2
    /\ commits[ret.arg][2] \notin Range(ret.out)

\* C16: issue_messages_iter(c) yields the first-parent chain from c and
\* ends right after the first commit that is the root of an issue, that
\* commit included; from the root of an issue it yields the root only.
C16_UntilInitial ==
    ret.op = "issue_messages_iter" =>
        /\ ret.out # <<>>
        /\ \A i \in 1..Len(ret.out) : ret.out[i] = NthFirstParent(ret.arg, i - 1)
        /\ \A i \in 1..(Len(ret.out) - 1) : ~HasHead(refs, ret.out[i])
        /\ \/ HasHead(refs, ret.out[Len(ret.out)])
           \/ commits[ret.out[Len(ret.out)]] = <<>>
        /\ HasHead(refs, ret.arg) => ret.out = <<ret.arg>>

\* From a message of an issue whose root has the root of another issue as
\* parent, the message and the root of its issue were yielded and nothing
\* else.
C16_Witness ==
    /\ ret.op = "issue_messages_iter"
    /\ Len(ret.out) = 2
    /\ HasHead(refs, ret.out[2])
    /\ NthFirstParent(ret.arg, 2) # 0
    /\ HasHead(refs, NthFirstParent(ret.arg, 2))

\* From the root of an issue that has a parent, the root alone was yielded.
C16_WitnessRoot ==
    /\ ret.op = "issue_messages_iter"
    /\ ret.out = <<ret.arg>>
    /\ commits[ret.arg] # <<>>

(***************************************************************************)
(* The frontiers of for_issue.                                             *)
(***************************************************************************)
\* The commits pushed onto the main revwalk of for_issue.
MainSeeds(rf, id, c) == ForIssue(rf, id, c).seeds

\* The commits pushed onto the revwalk of the second watcher, the one the
\* local head is matched against; none when there is no local head.
HeadSeeds(rf, id, c) ==
    IF HasLocalHead(rf, id) THEN HeadWatcher(rf, id, c, LocalHeadName(id)).seeds ELSE {}

\* rf without the remote tips of the issue.
WithoutRemoteTips(rf, id) == [nm \in DOMAIN rf \ RemoteTips(rf, id) |-> rf[nm]]

\* C17 as claimed: without consider_remote_refs no remote reference of the
\* issue is pushed onto either revwalk, under either collect_heads setting,
\* and everything for_issue yields, the local head included, is what it
\* yields on the store without the issue's remote references.
C17_NoRemoteInfluence ==
    (ret.op = "for_issue" /\ ~ret.cfg.consider_remote_refs) =>
        /\ MainSeeds(refs, ret.id, ret.cfg) = MainSeeds(WithoutRemotes(refs, ret.id), ret.id, ret.cfg)
        /\ HeadSeeds(refs, ret.id, ret.cfg) = HeadSeeds(WithoutRemotes(refs, ret.id), ret.id, ret.cfg)
        /\ Collectable(WithoutRemotes(refs, ret.id), ret.id, ret.cfg) = ret.out

\* C17: without consider_remote_refs no remote reference of the issue is
\* pushed onto the main revwalk and the local tips yielded do not depend on
\* them; under Never nothing is pushed onto the second revwalk and the whole
\* result is independent of the remote references; under BackedByRemoteHead
\* the targets of the remote heads, and of no other remote reference, are
\* pushed onto the second revwalk when the issue has a local head, so the
\* result depends on the remote heads and not on the remote tips.
C17_RemoteHeadsOnlyForHead ==
    (ret.op = "for_issue" /\ ~ret.cfg.consider_remote_refs) =>
        /\ MainSeeds(refs, ret.id, ret.cfg) = MainSeeds(WithoutRemotes(refs, ret.id), ret.id, ret.cfg)
        /\ LocalTipsOf(Collectable(WithoutRemotes(refs, ret.id), ret.id, ret.cfg))
                = LocalTipsOf(ret.out)
        /\ ret.cfg.collect_heads = "Never" =>
            /\ HeadSeeds(refs, ret.id, ret.cfg) = {}
            /\ Collectable(WithoutRemotes(refs, ret.id), ret.id, ret.cfg) = ret.out
        /\ ret.cfg.collect_heads = "BackedByRemoteHead" =>
            /\ HeadSeeds(refs, ret.id, ret.cfg) =
                    IF HasLocalHead(refs, ret.id)
                    THEN {refs[rh] : rh \in RemoteHeads(refs, ret.id)} ELSE {}
            /\ Collectable(WithoutRemoteTips(refs, ret.id), ret.id, ret.cfg) = ret.out

\* Without consider_remote_refs and under BackedByRemoteHead the local head
\* was yielded because of a remote head, next to a remote tip that changed
\* nothing: the result differs from the one without remote references.
C17_Witness ==
    /\ ret.op = "for_issue"
    /\ ~ret.cfg.consider_remote_refs
    /\ ret.cfg.collect_heads = "BackedByRemoteHead"
    /\ RemoteTips(refs, ret.id) # {}
    /\ LocalHeadName(ret.id) \in Yielded
    /\ HeadSeeds(refs, ret.id, ret.cfg) # {}
    /\ Collectable(WithoutRemotes(refs, ret.id), ret.id, ret.cfg) # ret.out

(***************************************************************************)
(* for_issue and references that cannot be peeled, checked under SpecErr.  *)
(***************************************************************************)
\* The references of the issue a call of for_issue with configuration c
\* goes through: the local head and the local tips, with
\* consider_remote_refs the remote references, and under BackedByRemoteHead
\* the remote heads if there is a local head.
ReadBy(rf, id, c) ==
    (IF HasLocalHead(rf, id) THEN {LocalHeadName(id)} ELSE {})
        \cup Tips(rf, id)
        \cup (IF c.consider_remote_refs THEN RemoteNames(rf, id) ELSE {})
        \cup (IF HasLocalHead(rf, id) /\ c.collect_heads = "BackedByRemoteHead"
              THEN RemoteHeads(rf, id) ELSE {})

Broken(rf) == {nm \in DOMAIN rf : rf[nm] \notin Nodes}

\* C18: when a reference for_issue goes through cannot be peeled, for_issue
\* returns an error and yields no reference of the issue; the call leaves
\* every reference as it was, the local head included, and nothing is
\* deleted after it; for_issue on another issue returns what it returns on
\* that issue's references alone.
C18_AtomicOnError ==
    /\ [](ret.op = "for_issue" =>
            /\ ret.err # "Ok" <=> ReadBy(refs, ret.id, ret.cfg) \cap Broken(refs) # {}
            /\ ret.err # "Ok" =>
                /\ ret.out = <<>>
                /\ \A other \in IssuesWithRefs(refs) \ {ret.id}, c \in Configs :
                    ForIssueResult(refs, other, c)
                        = ForIssueResult(OwnRefs(refs, other), other, c))
    /\ [][ret'.op = "for_issue" => (refs' = refs /\ commits' = commits)]_vars
    /\ [][(ret.op = "for_issue" /\ ret.err # "Ok") => refs' = refs]_vars

\* Under BackedByRemoteHead the local head lies below a remote head, so the
\* second watcher matched it, and then a local tip could not be peeled: the
\* call failed, nothing was yielded and the local head is there; another
\* issue has references.
C18_Witness ==
    /\ ret.op = "for_issue"
    /\ ret.err # "Ok"
    /\ ret.out = <<>>
    /\ ret.cfg.collect_heads = "BackedByRemoteHead"
    /\ HasLocalHead(refs, ret.id)
    /\ refs[LocalHeadName(ret.id)] \in Nodes
    /\ \E rh \in RemoteHeads(refs, ret.id) :
        /\ refs[rh] \in Nodes
        /\ refs[LocalHeadName(ret.id)] \in Ancestors(refs[rh])
    /\ Tips(refs, ret.id) \cap Broken(refs) # {}

\* for_issue failed on one issue while another issue has references.
C18_WitnessOther ==
    /\ ret.op = "for_issue"
    /\ ret.err # "Ok"
    /\ IssuesWithRefs(refs) \ {ret.id} # {}

\* C19: for an issue without a local head for_issue succeeds unless a
\* local tip, or with consider_remote_refs a remote reference, cannot be
\* peeled; the remote heads are not gone through for the head's sake, so one
\* that cannot be peeled does no harm; no head reference is yielded, and a
\* local tip is yielded exactly when its target is reachable from a parent
\* of another tip's target or, with consider_remote_refs, from a remote
\* reference.
C19_MissingHeadNoError ==
    (ret.op = "for_issue" /\ ~HasLocalHead(refs, ret.id)) =>
        /\ ret.err = "Ok" <=>
            (/\ Tips(refs, ret.id) \cap Broken(refs) = {}
             /\ ret.cfg.consider_remote_refs => RemoteNames(refs, ret.id) \cap Broken(refs) = {})
        /\ ret.err = "Ok" =>
            /\ Yielded \subseteq Tips(refs, ret.id)
            /\ \A t \in Tips(refs, ret.id) :
                t \in Yielded <=> refs[t] \in Reach(SeededBut(refs, ret.id, ret.cfg, {t}))

\* The issue has no local head and a remote head that cannot be peeled;
\* under BackedByRemoteHead and without consider_remote_refs for_issue
\* succeeded and yielded a local tip.
C19_Witness ==
    /\ ret.op = "for_issue"
    /\ ret.err = "Ok"
    /\ ~HasLocalHead(refs, ret.id)
    /\ ret.cfg.collect_heads = "BackedByRemoteHead"
    /\ RemoteHeads(refs, ret.id) \cap Broken(refs) # {}
    /\ Yielded # {}

\* The issue has no local head; with consider_remote_refs a local tip was
\* yielded because of a remote reference.
C19_WitnessRemote ==
    /\ ret.op = "for_issue"
    /\ ret.err = "Ok"
    /\ ~HasLocalHead(refs, ret.id)
    /\ ret.cfg.consider_remote_refs
    /\ \E t \in Tips(refs, ret.id) :
        /\ t \in Yielded
        /\ refs[t] \notin Reach(UNION {Parents(refs[u]) : u \in Tips(refs, ret.id) \ {t}})

(***************************************************************************)
(* The drain item by item, checked under SpecDrain.                        *)
(***************************************************************************)
\* The references for_issue watches: the local tips on the main watcher,
\* the local head on the second one.
Watched(rf, id) ==
    Tips(rf, id) \cup (IF HasLocalHead(rf, id) THEN {LocalHeadName(id)} ELSE {})

\* The target of a watched reference has been yielded by the revwalk of
\* its watcher: for a tip the main revwalk, as far as it has been driven,
\* for the local head the revwalk of the second watcher, which for_issue
\* drives to its end.
TargetYielded(nm) ==
    IF nm = LocalHeadName(ret.id)
    THEN ret.store[nm] \in Reach(HeadSeeds(ret.store, ret.id, ret.cfg))
    ELSE ret.store[nm] \in ret.it.visited

\* C20: at every point of an iteration each reference yielded or deleted so
\* far was watched and its target had been yielded by the revwalk, and only
\* yielded references are deleted; every other reference is there with the
\* target it had, so dropping the iterator at any point leaves the
\* unmatched and the not yet visited watched references as they were; once
\* the revwalk is exhausted the watched references that were not yielded
\* are those no seed reaches, and they are kept.
C20_DeletionFollowsMatch ==
    /\ [](ret.op \in Iterating =>
            /\ \A nm \in Range(ret.out) \cup ret.deleted :
                nm \in Watched(ret.store, ret.id) /\ TargetYielded(nm)
            /\ ret.deleted \subseteq Range(ret.out)
            /\ ret.it.visited \subseteq Reach(MainSeeds(ret.store, ret.id, ret.cfg))
            /\ DOMAIN refs = DOMAIN ret.store \ ret.deleted
            /\ \A nm \in DOMAIN refs : refs[nm] = ret.store[nm]
            /\ ret.op = "exhausted" =>
                /\ ret.out = Collectable(ret.store, ret.id, ret.cfg)
                /\ \A nm \in Watched(ret.store, ret.id) \ Range(ret.out) :
                    /\ nm \in DOMAIN refs
                    /\ ~TargetYielded(nm))
    /\ [][(ret.op \in Iterating /\ ret'.op \notin Iterating) => refs' = refs]_vars

\* The caller stopped in the middle of a drain: one tip was yielded and
\* deleted, another watched tip has a target the revwalk would yield but
\* has not yet, and the local head is watched and never matched; both are
\* there.
C20_Witness ==
    /\ ret.op = "deleting"
    /\ ret.deleted # {}
    /\ ret.it.walk # <<>>
    /\ \E nm \in Tips(ret.store, ret.id) \ Range(ret.out) :
        /\ ret.store[nm] \in Range(ret.it.walk)
        /\ nm \in DOMAIN refs
    /\ HasLocalHead(ret.store, ret.id)
    /\ ~TargetYielded(LocalHeadName(ret.id))
    /\ HasLocalHead(refs, ret.id)

\* The revwalk is exhausted, a reference was yielded and a watched one was
\* not.
C20_WitnessExhausted ==
    /\ ret.op = "exhausted"
    /\ ret.out # <<>>
    /\ Watched(ret.store, ret.id) \ Range(ret.out) # {}

(***************************************************************************)
(* The pass as a whole, checked under Spec.                                *)
(***************************************************************************)
\* C21: computing the collectable references of an issue changes neither
\* commits nor references, and applying the result removes exactly the
\* references yielded: no commit is added, altered or removed, no reference
\* is added or retargeted, every reference that was not yielded keeps its
\* name and target, and what is removed belongs to the issue, so the
\* references of every other issue are as they were.
C21_PassFrame ==
    /\ [][ret'.op = "for_issue" => (commits' = commits /\ refs' = refs)]_vars
    /\ [][(ret.op = "for_issue" /\ ret'.op = "collected") =>
            /\ commits' = commits
            /\ DOMAIN refs' = DOMAIN refs \ Range(ret.out)
            /\ \A nm \in DOMAIN refs' : refs'[nm] = refs[nm]
            /\ Range(ret.out) \subseteq OwnNames(refs, ret.id)
            /\ \A other \in Oids \ {ret.id} : OwnRefs(refs', other) = OwnRefs(refs, other)]_vars

\* A pass removed a reference of an issue and left another reference of
\* the same issue and a reference of another issue.
C21_Witness ==
    /\ ret.op = "collected"
    /\ ret.out # <<>>
    /\ OwnNames(refs, ret.id) # {}
    /\ IssuesWithRefs(refs) \ {ret.id} # {}

(***************************************************************************)
(* issue_by_head_ref on other references, checked under SpecRepo.          *)
(***************************************************************************)
\* The name follows the pattern of a head reference: it ends with the
\* segment "head" and the segment before spells an id.
WellFormedHead(nm) ==
    /\ Len(nm) >= 2
    /\ nm[Len(nm)] = "head"
    /\ \E X \in Oids : nm[Len(nm) - 1] = OidToStr(X)

\* C22 as claimed: on a name that does not follow the pattern
\* issue_by_head_ref fails with MalFormedHeadReference, whichever part of
\* the pattern is broken; on a name that follows it, it returns the issue.
C22_MalformedIsOneError ==
    ret.op = "issue_by_head_ref" =>
        /\ ~WellFormedHead(ret.arg) => ret.err = "MalFormedHeadReference"
        /\ WellFormedHead(ret.arg) => ret.err = "Ok"

\* C22: on a name that does not end with the segment "head"
\* issue_by_head_ref fails with MalFormedHeadReference; on a name that ends
\* with it while the segment before spells no id, it fails with
\* OidFormatError; in neither case an issue is returned or the failure is
\* the one of an issue not found; on a name that follows the pattern it
\* returns the issue, whether the issue can be found or not.
C22_MalformedErrors ==
    ret.op = "issue_by_head_ref" =>
        /\ (Len(ret.arg) < 2 \/ ret.arg[Len(ret.arg)] # "head")
            => ret.err = "MalFormedHeadReference"
        /\ (~WellFormedHead(ret.arg) /\ Len(ret.arg) >= 2 /\ ret.arg[Len(ret.arg)] = "head")
            => ret.err = "OidFormatError"
        /\ ~WellFormedHead(ret.arg) => ret.id = 0
        /\ ret.err # "CannotFindIssueHead"
        /\ WellFormedHead(ret.arg) =>
            (ret.err = "Ok" /\ OidToStr(ret.id) = ret.arg[Len(ret.arg) - 1])

\* issue_by_head_ref was given a branch whose name ends with "/head" and
\* failed on the segment before it.
C22_Witness ==
    /\ ret.op = "issue_by_head_ref"
    /\ ret.arg \in DOMAIN refs
    /\ ret.arg = BranchName
    /\ ret.err = "OidFormatError"

\* issue_by_head_ref was given a tip reference of an issue.
C22_WitnessTip ==
    /\ ret.op = "issue_by_head_ref"
    /\ ret.arg \in Tips(refs, OidFromStr(IssuePart(ret.arg)))
    /\ ret.err = "MalFormedHeadReference"

(***************************************************************************)
(* What a pass keeps, checked under Spec.                                  *)
(***************************************************************************)
\* The commits the references of an issue hold: the targets of its
\* references, local and remote, heads and tips, and their ancestors.
History(rf, id) == Reach({rf[nm] : nm \in OwnNames(rf, id)})

\* C23: a pass loses no history: every commit that was the target of a
\* reference of the issue or an ancestor of one before for_issue was
\* drained and what it yielded was deleted still is afterwards, for every
\* issue, store and configuration.
C23_NoHistoryLost ==
    [][(ret.op = "for_issue" /\ ret'.op = "collected")
        => History(refs, ret.id) \subseteq History(refs', ret.id)]_vars

\* A pass deleted the local head and a tip of the issue.
C23_Witness ==
    /\ ret.op = "collected"
    /\ LocalHeadName(ret.id) \in Range(ret.out)
    /\ LocalTipsOf(ret.out) # {}

\* A pass deleted a tip of an issue that has neither a local head nor a
\* remote reference: another tip's parents accounted for it.
C23_WitnessTips ==
    /\ ret.op = "collected"
    /\ LocalTipsOf(ret.out) # {}
    /\ ~HasLocalHead(refs, ret.id)
    /\ LocalHeadName(ret.id) \notin Range(ret.out)
    /\ RemoteNames(refs, ret.id) = {}

====
